---- MODULE Spec2Model ----
(***************************************************************************)
(* Model of homeassistant/components/nut/__init__.py: the NUT (Network UPS *)
(* Tools) integration of Home Assistant.                                   *)
(*                                                                         *)
(*   - the derivation helpers (_manufacturer_from_status, ...,             *)
(*     _unique_id_from_status) as operators over Python values;            *)
(*   - PyNUTData, the fetcher, whose update() runs on executor threads;    *)
(*   - async_setup_entry / async_unload_entry and the refresh cycle        *)
(*     async_update_data driven by the host's coordinator.                 *)
(*                                                                         *)
(* Two specifications: SpecPure applies the helpers to status mappings     *)
(* drawn from a bounded set, Spec runs the entry lifecycle.                *)
(***************************************************************************)
EXTENDS Naturals, Sequences, FiniteSets

----------------------------------------------------------------------------
(* Python values.  A value is a record tagged with its Python type: None,  *)
(* a str (its characters, a sequence of one-character strings) or a dict   *)
(* (its items).  A dict is a total function on Keys; a key the dict does   *)
(* not hold maps to PyNone, which is what dict.get returns for it (the     *)
(* values the NUT client stores are always str).                           *)

PyNone == [type |-> "NoneType"]

Str(s) == [type |-> "str", chars |-> s]

Dict(m) == [type |-> "dict", items |-> m]

\* the status variables the helpers read, and ups.status (the UPS state,
\* which no helper reads: a status that holds only it is not empty)
MfrKeys == <<"device.mfr", "ups.mfr", "ups.vendorid", "driver.version.data">>

ModelKeys == <<"device.model", "ups.model", "ups.productid">>

FirmwareKeys == <<"ups.firmware", "ups.firmware.aux">>

SerialKeys == <<"device.serial", "ups.serial">>

Range(seq) == {seq[i] : i \in 1..Len(seq)}

Keys == Range(MfrKeys) \cup Range(ModelKeys) \cup Range(FirmwareKeys)
          \cup Range(SerialKeys) \cup {"ups.status"}

\* Python truthiness: None, "" and {} are falsy
Truthy(v) ==
    CASE v.type = "NoneType" -> FALSE
      [] v.type = "str" -> Len(v.chars) > 0
      [] v.type = "dict" -> \E k \in DOMAIN v.items : v.items[k] # PyNone

\* a or b
PyOr(a, b) == IF Truthy(a) THEN a ELSE b

\* status.get(key)
Get(status, key) == status.items[key]

\* str.lower(), on the letters the model's strings use
LowerChar(c) ==
    CASE c = "U" -> "u"
      [] c = "N" -> "n"
      [] c = "K" -> "k"
      [] c = "O" -> "o"
      [] c = "W" -> "w"
      [] c = "S" -> "s"
      [] c = "A" -> "a"
      [] c = "X" -> "x"
      [] OTHER -> c

Lower(s) == [i \in 1..Len(s) |-> LowerChar(s[i])]

\* str.count("0")
CountZero(s) == Cardinality({i \in 1..Len(s) : s[i] = "0"})

\* sep.join(parts), parts a sequence of character sequences
RECURSIVE Join(_, _)
Join(sep, parts) ==
    IF Len(parts) = 0 THEN <<>>
    ELSE IF Len(parts) = 1 THEN parts[1]
    ELSE parts[1] \o sep \o Join(sep, Tail(parts))

----------------------------------------------------------------------------
(* The derivation helpers.                                                 *)

\* a mutant: ups.mfr is looked up before device.mfr
ManufacturerUpsFirst(status) ==
    PyOr(Get(status, "ups.mfr"),
         PyOr(Get(status, "device.mfr"),
              PyOr(Get(status, "ups.vendorid"),
                   Get(status, "driver.version.data"))))

_manufacturer_from_status(status) ==
    PyOr(Get(status, "device.mfr"),
         PyOr(Get(status, "ups.mfr"),
              PyOr(Get(status, "ups.vendorid"),
                   Get(status, "driver.version.data"))))

_model_from_status(status) ==
    PyOr(Get(status, "device.model"),
         PyOr(Get(status, "ups.model"), Get(status, "ups.productid")))

_firmware_from_status(status) ==
    PyOr(Get(status, "ups.firmware"), Get(status, "ups.firmware.aux"))

Unknown == <<"u", "n", "k", "n", "o", "w", "n">>

\* a mutant: the comparison with "unknown" is case-sensitive
SerialCaseSensitive(status) ==
    LET serial == PyOr(Get(status, "device.serial"), Get(status, "ups.serial"))
    IN  IF Truthy(serial)
           /\ (serial.chars = Unknown
               \/ CountZero(serial.chars) = Len(serial.chars))
        THEN PyNone
        ELSE serial

_serial_from_status(status) ==
    LET serial == PyOr(Get(status, "device.serial"), Get(status, "ups.serial"))
    IN  IF Truthy(serial)
           /\ (Lower(serial.chars) = Unknown
               \/ CountZero(serial.chars) = Len(serial.chars))
        THEN PyNone
        ELSE serial

\* a mutant: the serial is put first
UniqueIdSerialFirst(status) ==
    LET serial == _serial_from_status(status)
        manufacturer == _manufacturer_from_status(status)
        model == _model_from_status(status)
        g1 == IF Truthy(serial) THEN <<serial.chars>> ELSE <<>>
        g2 == IF Truthy(manufacturer) THEN Append(g1, manufacturer.chars) ELSE g1
        g3 == IF Truthy(model) THEN Append(g2, model.chars) ELSE g2
    IN  IF ~Truthy(serial) THEN PyNone ELSE Str(Join(<<"_">>, g3))

_unique_id_from_status(status) ==
    LET serial == _serial_from_status(status)
        manufacturer == _manufacturer_from_status(status)
        model == _model_from_status(status)
        g1 == IF Truthy(manufacturer) THEN <<manufacturer.chars>> ELSE <<>>
        g2 == IF Truthy(model) THEN Append(g1, model.chars) ELSE g1
        g3 == IF Truthy(serial) THEN Append(g2, serial.chars) ELSE g2
    IN  IF ~Truthy(serial) THEN PyNone ELSE Str(Join(<<"_">>, g3))

----------------------------------------------------------------------------
(* Bounds of the status mappings SpecPure draws.                           *)

\* longest serial made of the character '0' only
MaxZeros == 3

Zeros(n) == [i \in 1..n |-> "0"]

SN123 == <<"S", "N", "1", "2", "3">>

Acme == <<"A", "c", "m", "e">>

X1 == <<"X", "1">>

\* the serial values: absent, empty, all zeros, the spellings of "unknown",
\* and serials that only resemble those
SerialValues ==
    {PyNone, Str(<<>>), Str(SN123), Str(Unknown),
     Str(<<"U", "N", "K", "N", "O", "W", "N">>),
     Str(<<"U", "n", "k", "n", "o", "w", "n">>),
     Str(<<"u", "n", "k", "n", "o", "w", "n", "0">>),
     Str(<<"0", "S">>)}
      \cup {Str(Zeros(n)) : n \in 1..MaxZeros}

\* each other key is absent, empty, or holds a value of its own
ValuesOf(key) ==
    CASE key = "device.mfr" -> {PyNone, Str(<<>>), Str(Acme)}
      [] key = "ups.mfr" -> {PyNone, Str(<<>>), Str(<<"A", "P", "C">>)}
      [] key = "ups.vendorid" -> {PyNone, Str(<<>>), Str(<<"0", "5", "1", "d">>)}
      [] key = "driver.version.data" -> {PyNone, Str(<<>>), Str(<<"H", "I", "D">>)}
      [] key = "device.model" -> {PyNone, Str(<<>>), Str(X1)}
      [] key = "ups.model" -> {PyNone, Str(<<"B", "X">>)}
      [] key = "ups.productid" -> {PyNone, Str(<<"0", "0", "0", "2">>)}
      [] key \in Range(SerialKeys) -> SerialValues
      [] OTHER -> {PyNone}

----------------------------------------------------------------------------
(* The remote NUT server, as the client library reports it: a call yields  *)
(* a Python value or raises.                                               *)

Raise(exc) == [type |-> "raise", exc |-> exc]

List(elems) == [type |-> "list", elems |-> elems]

Raises(resp) == resp.type = "raise"

\* "not x" for the values a client call returns
Falsy(v) == IF v.type = "list" THEN Len(v.elems) = 0 ELSE ~Truthy(v)

Ups1 == <<"u", "p", "s", "1">>

OL == <<"O", "L">>

EmptyStatus == Dict([k \in Keys |-> PyNone])

\* a status that holds the UPS state only: no manufacturer, model or serial
StatusNoSerial == Dict([k \in Keys |-> IF k = "ups.status" THEN Str(OL) ELSE PyNone])

StatusFull ==
    Dict([k \in Keys |->
            CASE k = "device.mfr" -> Str(Acme)
              [] k = "device.model" -> Str(X1)
              [] k = "device.serial" -> Str(SN123)
              [] k = "ups.status" -> Str(OL)
              [] OTHER -> PyNone])

\* list_ups(): the aliases (first one first), no alias, or a protocol error
ListUpsResponses ==
    {Raise("PyNUTError"), List(<<>>), List(<<Ups1, <<"u", "p", "s", "2">> >>)}

\* list_vars(alias): a mapping, a protocol error or a reset connection
ListVarsResponses ==
    {Raise("PyNUTError"), Raise("ConnectionResetError"),
     EmptyStatus, StatusNoSerial, StatusFull}

----------------------------------------------------------------------------
(* Bounds of Spec.                                                         *)

\* executor threads
MaxWorkers == 2

\* refresh cycles of one fetcher
MaxCycles == 3

\* invocations of one listener's deregistration callback
MaxUndo == 2

Workers == 1..MaxWorkers

----------------------------------------------------------------------------
VARIABLES
    pstatus, pfn, pres,   \* SpecPure: the mapping, the helper, its result
    entryState,           \* host: "not_loaded", "setup" (in async_setup_entry), "loaded"
    options,              \* entry.options
    origOptions,          \* history: entry.options before any setup
    optionsUpdates,       \* history: calls of async_update_entry
    cfgAlias,             \* entry.data.get(CONF_ALIAS)
    hassData,             \* hass.data[DOMAIN].get(entry.entry_id): the handle
    listeners,            \* entry.update_listeners: how many are registered
    undoCalls,            \* history: invocations of the handle's undo_listener
    platforms,            \* platform setup requested and not torn down
    data,                 \* the PyNUTData of the latest setup
    coordData,            \* coordinator.data of the latest setup
    cyc,                  \* the refresh cycle (async_update_data) in progress
    workers,              \* executor threads: where each is in update()
    nUpdates,             \* history: update() calls on data
    upsRequests,          \* history: list_ups requests of data
    upsWithAlias,         \* history: those sent although data's alias was set
    varsRequests,         \* history: list_vars requests of data
    lastVars,             \* history: how the latest list_vars of data ended
    lastExc,              \* history: what the latest update() of data raised
    hadSnapshot,          \* history: data.status has held a non-empty mapping
    lastReturn,           \* history: the latest return of a lifecycle handler
    teardown              \* history: the latest platform teardown result

pvars == <<pstatus, pfn, pres>>

entryVars == <<entryState, options, origOptions, optionsUpdates, cfgAlias, hassData,
               listeners, undoCalls, platforms, lastReturn, teardown>>

fetchVars == <<data, coordData, cyc, workers, nUpdates, upsRequests, upsWithAlias,
               varsRequests, lastVars, lastExc, hadSnapshot>>

vars == <<pvars, entryVars, fetchVars>>

CONF_RESOURCES == "resources"

CONF_SCAN_INTERVAL == "scan_interval"

\* entry.entry_id
EntryId == Str(<<"e", "1">>)

\* the options records an entry can hold
OptionsRecords ==
    {[k \in D |-> IF k = CONF_RESOURCES THEN "battery.charge" ELSE 30] :
        D \in SUBSET {CONF_RESOURCES, CONF_SCAN_INTERVAL}}

----------------------------------------------------------------------------
(* PyNUTData.                                                              *)

PyNUTData(alias) == [alias |-> alias, ups_list |-> PyNone, status |-> PyNone]

\* _get_status's test before it asks for the alias
AliasAlwaysNeeded(self) == TRUE

NeedsAlias(self) == self.alias = PyNone

\* _get_alias, given what list_ups did: the fetcher and the value returned
_get_alias(self, resp) ==
    IF Raises(resp) /\ resp.exc = "PyNUTError"
    THEN [self |-> self, ret |-> PyNone]
    ELSE IF Falsy(resp)
    THEN [self |-> self, ret |-> PyNone]
    ELSE [self |-> [self EXCEPT !.ups_list = resp], ret |-> Str(resp.elems[1])]

\* _get_status's try block, given what list_vars did: the value returned,
\* and the exception that escapes
_get_status(resp) ==
    IF Raises(resp)
    THEN IF resp.exc \in {"PyNUTError", "ConnectionResetError"}
         THEN [ret |-> PyNone, exc |-> "none"]
         ELSE [ret |-> PyNone, exc |-> resp.exc]
    ELSE [ret |-> resp, exc |-> "none"]

\* a mutant: a failed fetch keeps the previous snapshot
UpdateKeepsSnapshot(self, resp) ==
    IF Raises(resp) THEN self ELSE [self EXCEPT !.status = resp]

\* update, given what list_vars did
update(self, resp) ==
    IF _get_status(resp).exc = "none"
    THEN [self EXCEPT !.status = _get_status(resp).ret]
    ELSE self

----------------------------------------------------------------------------
(* async_setup_entry's pieces.                                             *)

\* a mutant: the migration drops every option
MigrateDropsAll(opts) ==
    IF CONF_RESOURCES \in DOMAIN opts
    THEN [options |-> [k \in {} |-> 30], updated |-> TRUE]
    ELSE [options |-> opts, updated |-> FALSE]

\* the migration of the stale option: the options, and whether
\* async_update_entry was called
MigrateOptions(opts) ==
    IF CONF_RESOURCES \in DOMAIN opts
    THEN [options |-> [k \in DOMAIN opts \ {CONF_RESOURCES} |-> opts[k]],
          updated |-> TRUE]
    ELSE [options |-> opts, updated |-> FALSE]

\* a mutant: only a missing status fails the refresh
UpdateFailedNoneOnly(status) == status = PyNone

\* async_update_data's test: "not data.status"
UpdateFailed(status) == ~Truthy(status)

\* a mutant: the handle is removed whatever the teardown reported
UnloadPopsAlways(unload_ok) == TRUE

\* async_unload_entry's test before it removes the handle
UnloadPops(unload_ok) == unload_ok

\* the handle stored under the entry id
Handle(status, undo) ==
    [type |-> "handle",
     coordinator |-> "coordinator",
     data |-> "data",
     unique_id |-> IF _unique_id_from_status(status) = PyNone
                   THEN EntryId
                   ELSE _unique_id_from_status(status),
     manufacturer |-> _manufacturer_from_status(status),
     model |-> _model_from_status(status),
     firmware |-> _firmware_from_status(status),
     undo |-> undo]

----------------------------------------------------------------------------
(* Spec: the lifecycle of one config entry.                                *)

Init ==
    /\ pstatus = EmptyStatus
    /\ pfn = "none"
    /\ pres = PyNone
    /\ entryState = "not_loaded"
    /\ options \in OptionsRecords
    /\ origOptions = options
    /\ optionsUpdates = 0
    /\ cfgAlias \in {PyNone, Str(Ups1)}
    /\ hassData = PyNone
    /\ listeners = 0
    /\ undoCalls = 0
    /\ platforms = FALSE
    /\ data = PyNUTData(PyNone)
    /\ coordData = PyNone
    /\ cyc = [state |-> "idle", worker |-> 0]
    /\ workers = [w \in Workers |-> "idle"]
    /\ nUpdates = 0
    /\ upsRequests = 0
    /\ upsWithAlias = 0
    /\ varsRequests = 0
    /\ lastVars = "none"
    /\ lastExc = "none"
    /\ hadSnapshot = FALSE
    /\ lastReturn = "none"
    /\ teardown = "none"

\* update() runs on data: between its call and its return
InFlight(w) == workers[w] \in {"ups", "vars"}

\* the executor thread that takes the next job
FreeWorker == CHOOSE w \in Workers : workers[w] = "idle" /\ \A v \in Workers : workers[v] = "idle" => w <= v

\* hass.async_add_executor_job(data.update): the cycle awaits the job, and
\* an idle thread enters update(), where _get_status requests list_ups
\* when the fetcher has no alias and list_vars when it has one.  With a
\* new fetcher, the threads still in update() are left on the earlier one
StartCycle(self, new) ==
    /\ cyc.state = "idle"
    /\ \E w \in Workers : workers[w] = "idle"
    /\ cyc' = [state |-> "waiting", worker |-> FreeWorker]
    /\ workers' = [v \in Workers |->
                     IF v = FreeWorker THEN (IF NeedsAlias(self) THEN "ups" ELSE "vars")
                     ELSE IF workers[v] \in {"idle", "done"} \/ ~new THEN workers[v]
                     ELSE "stale"]
    /\ upsRequests' = (IF new THEN 0 ELSE upsRequests)
                        + (IF NeedsAlias(self) THEN 1 ELSE 0)
    /\ upsWithAlias' = (IF new THEN 0 ELSE upsWithAlias)
                         + (IF NeedsAlias(self) /\ self.alias # PyNone THEN 1 ELSE 0)
    /\ varsRequests' = (IF new THEN 0 ELSE varsRequests)
                         + (IF NeedsAlias(self) THEN 0 ELSE 1)

\* async_setup_entry, up to where it awaits the first refresh
AsyncSetupEntryBegin ==
    /\ entryState = "not_loaded"
    /\ options' = MigrateOptions(options).options
    /\ optionsUpdates' = optionsUpdates + (IF MigrateOptions(options).updated THEN 1 ELSE 0)
    /\ data' = PyNUTData(cfgAlias)
    /\ coordData' = PyNone
    /\ StartCycle(data', TRUE)
    /\ entryState' = "setup"
    /\ nUpdates' = 1
    /\ lastVars' = "none"
    /\ lastExc' = "none"
    /\ hadSnapshot' = FALSE
    /\ UNCHANGED <<pvars, origOptions, cfgAlias, hassData, listeners, undoCalls,
                   platforms, lastReturn, teardown>>

\* the coordinator's timer: the next cycle, once the previous one is over
PeriodicRefresh ==
    /\ entryState = "loaded"
    /\ platforms
    /\ nUpdates < MaxCycles
    /\ StartCycle(data, FALSE)
    /\ nUpdates' = nUpdates + 1
    /\ UNCHANGED <<pvars, entryVars, data, coordData, lastVars, lastExc, hadSnapshot>>

\* list_ups ends: _get_alias's result is stored, list_vars is requested
GetAliasReturn(w, resp) ==
    /\ workers[w] = "ups"
    /\ data' = [_get_alias(data, resp).self EXCEPT !.alias = _get_alias(data, resp).ret]
    /\ workers' = [workers EXCEPT ![w] = "vars"]
    /\ varsRequests' = varsRequests + 1
    /\ UNCHANGED <<pvars, entryVars, coordData, cyc, nUpdates, upsRequests,
                   upsWithAlias, lastVars, lastExc, hadSnapshot>>

\* list_vars ends: update stores the status and returns to the thread pool
GetStatusReturn(w, resp) ==
    /\ workers[w] = "vars"
    /\ data' = update(data, resp)
    /\ workers' = [workers EXCEPT ![w] =
                     IF cyc.state = "waiting" /\ cyc.worker = w THEN "done" ELSE "idle"]
    /\ lastVars' = IF Raises(resp) THEN "raise" ELSE "ok"
    /\ lastExc' = _get_status(resp).exc
    /\ hadSnapshot' = (hadSnapshot \/ Truthy(data'.status))
    /\ UNCHANGED <<pvars, entryVars, coordData, cyc, nUpdates, upsRequests,
                   upsWithAlias, varsRequests>>

\* a thread left in an earlier fetcher's update() comes back
StaleReturn(w) ==
    /\ workers[w] = "stale"
    /\ workers' = [workers EXCEPT ![w] = "idle"]
    /\ UNCHANGED <<pvars, entryVars, data, coordData, cyc, nUpdates, upsRequests,
                   upsWithAlias, varsRequests, lastVars, lastExc, hadSnapshot>>

\* async_setup_entry after a first refresh that succeeded
SetupFinish ==
    /\ coordData' = data.status
    /\ listeners' = listeners + 1
    /\ undoCalls' = 0
    /\ hassData' = Handle(coordData', "undo_listener")
    /\ platforms' = TRUE
    /\ entryState' = "loaded"
    /\ lastReturn' = "setup:True"

\* the first refresh failed: async_config_entry_first_refresh raises
SetupFails ==
    /\ entryState' = "not_loaded"
    /\ lastReturn' = "setup:raise"
    /\ UNCHANGED <<coordData, listeners, undoCalls, hassData, platforms>>

\* the first refresh's update() has returned: async_update_data goes on
FirstRefreshDone ==
    /\ entryState = "setup"
    /\ cyc.state = "waiting"
    /\ workers[cyc.worker] = "done"
    /\ IF UpdateFailed(data.status) THEN SetupFails ELSE SetupFinish
    /\ cyc' = [state |-> "idle", worker |-> 0]
    /\ workers' = [workers EXCEPT ![cyc.worker] = "idle"]
    /\ UNCHANGED <<pvars, options, origOptions, optionsUpdates, cfgAlias,
                   teardown, data, nUpdates, upsRequests, upsWithAlias, varsRequests,
                   lastVars, lastExc, hadSnapshot>>

\* a periodic cycle's update() has returned: async_update_data goes on
PeriodicRefreshDone ==
    /\ entryState = "loaded"
    /\ cyc.state = "waiting"
    /\ workers[cyc.worker] = "done"
    /\ coordData' = IF UpdateFailed(data.status) THEN coordData ELSE data.status
    /\ cyc' = [state |-> "idle", worker |-> 0]
    /\ workers' = [workers EXCEPT ![cyc.worker] = "idle"]
    /\ UNCHANGED <<pvars, entryVars, data, nUpdates, upsRequests, upsWithAlias,
                   varsRequests, lastVars, lastExc, hadSnapshot>>

\* async_timeout.timeout(10) expires while update() runs: the cycle fails,
\* the thread goes on with the client call
CycleTimeout ==
    /\ cyc.state = "waiting"
    /\ InFlight(cyc.worker)
    /\ cyc' = [state |-> "idle", worker |-> 0]
    /\ IF entryState = "setup"
       THEN SetupFails
       ELSE UNCHANGED <<entryState, lastReturn, coordData, listeners, undoCalls,
                        hassData, platforms>>
    /\ UNCHANGED <<pvars, options, origOptions, optionsUpdates, cfgAlias,
                   teardown, data, workers, nUpdates, upsRequests, upsWithAlias,
                   varsRequests, lastVars, lastExc, hadSnapshot>>

\* async_unload_entry, unload_ok being what async_unload_platforms reported
AsyncUnloadEntry(unload_ok) ==
    /\ entryState = "loaded"
    /\ undoCalls < MaxUndo
    /\ teardown' = IF unload_ok THEN "ok" ELSE "failed"
    /\ listeners' = IF undoCalls = 0 THEN listeners - 1 ELSE listeners
    /\ undoCalls' = undoCalls + 1
    /\ IF UnloadPops(unload_ok)
       THEN /\ hassData' = PyNone
            /\ platforms' = FALSE
            /\ entryState' = "not_loaded"
            /\ lastReturn' = IF unload_ok THEN "unload:True" ELSE "unload:False"
            \* no entity listens to the coordinator any more: its cycle is dropped
            /\ cyc' = [state |-> "idle", worker |-> 0]
            /\ workers' = [w \in Workers |-> IF workers[w] = "done" THEN "idle" ELSE workers[w]]
       ELSE /\ lastReturn' = IF unload_ok THEN "unload:True" ELSE "unload:False"
            /\ UNCHANGED <<hassData, platforms, entryState, cyc, workers>>
    /\ UNCHANGED <<pvars, options, origOptions, optionsUpdates, cfgAlias,
                   data, coordData, nUpdates, upsRequests, upsWithAlias, varsRequests,
                   lastVars, lastExc, hadSnapshot>>

Next ==
    \/ AsyncSetupEntryBegin
    \/ PeriodicRefresh
    \/ \E w \in Workers, resp \in ListUpsResponses : GetAliasReturn(w, resp)
    \/ \E w \in Workers, resp \in ListVarsResponses : GetStatusReturn(w, resp)
    \/ \E w \in Workers : StaleReturn(w)
    \/ FirstRefreshDone
    \/ PeriodicRefreshDone
    \/ CycleTimeout
    \/ \E unload_ok \in BOOLEAN : AsyncUnloadEntry(unload_ok)

Spec == Init /\ [][Next]_vars

----------------------------------------------------------------------------
(* SpecPure: a status mapping is drawn, then one helper is applied to it.  *)

\* every key takes each of its values
InitPure ==
    /\ pstatus \in
        {Dict([k \in Keys |->
                CASE k = "device.mfr" -> m1
                  [] k = "ups.mfr" -> m2
                  [] k = "ups.vendorid" -> m3
                  [] k = "driver.version.data" -> m4
                  [] k = "device.model" -> d1
                  [] k = "ups.model" -> d2
                  [] k = "ups.productid" -> d3
                  [] k = "device.serial" -> s1
                  [] k = "ups.serial" -> s2
                  [] OTHER -> PyNone]) :
            m1 \in ValuesOf("device.mfr"), m2 \in ValuesOf("ups.mfr"),
            m3 \in ValuesOf("ups.vendorid"), m4 \in ValuesOf("driver.version.data"),
            d1 \in ValuesOf("device.model"), d2 \in ValuesOf("ups.model"),
            d3 \in ValuesOf("ups.productid"),
            s1 \in ValuesOf("device.serial"), s2 \in ValuesOf("ups.serial")}
    /\ pfn = "none"
    /\ pres = PyNone
    /\ entryState = "not_loaded"
    /\ options = [k \in {} |-> 30]
    /\ origOptions = options
    /\ optionsUpdates = 0
    /\ cfgAlias = PyNone
    /\ hassData = PyNone
    /\ listeners = 0
    /\ undoCalls = 0
    /\ platforms = FALSE
    /\ data = PyNUTData(PyNone)
    /\ coordData = PyNone
    /\ cyc = [state |-> "idle", worker |-> 0]
    /\ workers = [w \in Workers |-> "idle"]
    /\ nUpdates = 0
    /\ upsRequests = 0
    /\ upsWithAlias = 0
    /\ varsRequests = 0
    /\ lastVars = "none"
    /\ lastExc = "none"
    /\ hadSnapshot = FALSE
    /\ lastReturn = "none"
    /\ teardown = "none"

Apply(fn, result) ==
    /\ pfn = "none"
    /\ pfn' = fn
    /\ pres' = result
    /\ UNCHANGED <<pstatus, entryVars, fetchVars>>

ApplyManufacturer == Apply("manufacturer", _manufacturer_from_status(pstatus))

ApplyModel == Apply("model", _model_from_status(pstatus))

ApplyFirmware == Apply("firmware", _firmware_from_status(pstatus))

ApplySerial == Apply("serial", _serial_from_status(pstatus))

ApplyUniqueId == Apply("unique_id", _unique_id_from_status(pstatus))

NextPure ==
    \/ ApplyManufacturer
    \/ ApplyModel
    \/ ApplyFirmware
    \/ ApplySerial
    \/ ApplyUniqueId

SpecPure == InitPure /\ [][NextPure]_vars

----------------------------------------------------------------------------
(* The claims.                                                             *)

\* C1: when the list_vars request of an update raises PyNUTError or
\* ConnectionResetError, the fetcher's status is None after that update,
\* whatever snapshot it held, and update raises nothing.
C1_FailedFetchClearsStatus ==
    lastVars = "raise" => (data.status = PyNone /\ lastExc = "none")

\* a failed fetch after a successful one
C1_Witness == lastVars = "raise" /\ hadSnapshot /\ data.status = PyNone

\* C2: every async_unload_entry invokes the listener's deregistration
\* callback; the handle is removed exactly when the platform teardown
\* reported success; when it reported failure the handle is unchanged and
\* the operation returns False.
C2_UnloadRemovesHandleIffTeardownOk ==
    [][(\E unload_ok \in BOOLEAN : AsyncUnloadEntry(unload_ok)) =>
          /\ hassData # PyNone
          /\ undoCalls' = undoCalls + 1
          /\ (teardown' = "ok") <=> (hassData' = PyNone)
          /\ teardown' = "ok" => lastReturn' = "unload:True"
          /\ teardown' = "failed" => (hassData' = hassData /\ lastReturn' = "unload:False")]_vars

\* an unload whose teardown failed: the handle is still stored
C2_Witness ==
    lastReturn = "unload:False" /\ teardown = "failed" /\ hassData # PyNone /\ undoCalls = 1

\* C3: async_setup_entry returns True only after a first refresh that ended
\* with a non-empty status; when the first refresh fails, setup fails with
\* no handle stored, no listener registered and no platform setup requested.
C3_SetupNeedsFirstRefresh ==
    /\ lastReturn = "setup:True" => (Truthy(coordData) /\ hassData # PyNone)
    /\ lastReturn = "setup:raise" => (hassData = PyNone /\ listeners = 0 /\ ~platforms)

\* a setup that failed because the first fetch gave an empty status
C3_Witness ==
    lastReturn = "setup:raise" /\ lastVars = "ok" /\ data.status = EmptyStatus
      /\ hassData = PyNone

\* C4: at most one update() of the entry's fetcher is in flight at any time.
C4_SingleFetchInFlight == Cardinality({w \in Workers : InFlight(w)}) <= 1

\* C5, as claimed: a mapping that contains device.mfr gives exactly its
\* value, and a mapping with none of the four keys gives None.
C5_Original ==
    pfn = "manufacturer" =>
        /\ Get(pstatus, "device.mfr") # PyNone => pres = Get(pstatus, "device.mfr")
        /\ (\A k \in Range(MfrKeys) : Get(pstatus, k) = PyNone) => pres = PyNone

\* C5, amended: a mapping whose device.mfr value is not empty gives exactly
\* that value, whatever the other keys hold; an empty device.mfr value is
\* passed over as a missing one is; a mapping with none of the four keys
\* gives None.
C5_NonEmptyDeviceMfrWins ==
    pfn = "manufacturer" =>
        /\ Truthy(Get(pstatus, "device.mfr")) => pres = Get(pstatus, "device.mfr")
        /\ Get(pstatus, "device.mfr") = Str(<<>>) =>
              pres = _manufacturer_from_status(
                        Dict([pstatus.items EXCEPT !["device.mfr"] = PyNone]))
        /\ (\A k \in Range(MfrKeys) : Get(pstatus, k) = PyNone) => pres = PyNone

\* device.mfr wins over the three other keys, all present
C5_Witness ==
    /\ pfn = "manufacturer"
    /\ pres = Str(Acme)
    /\ \A k \in Range(MfrKeys) : Truthy(Get(pstatus, k))

\* what a present value contributes to the unique id
IdPart(v) == IF Truthy(v) THEN v.chars \o <<"_">> ELSE <<>>

\* C6: the unique id is None when no valid serial can be derived, and else
\* the present values among manufacturer, model, serial, in that order,
\* joined by "_".
C6_UniqueId ==
    pfn = "unique_id" =>
        LET serial == _serial_from_status(pstatus)
        IN  /\ ~Truthy(serial) => pres = PyNone
            /\ Truthy(serial) =>
                  pres = Str(IdPart(_manufacturer_from_status(pstatus))
                               \o IdPart(_model_from_status(pstatus))
                               \o serial.chars)
            /\ (/\ Get(pstatus, "device.serial") = Str(SN123)
                /\ \A k \in Range(MfrKeys) \cup Range(ModelKeys) : Get(pstatus, k) = PyNone)
                  => pres = Str(SN123)

\* manufacturer, model and serial give "Acme_X1_SN123"
C6_Witness ==
    /\ pfn = "unique_id"
    /\ Get(pstatus, "device.mfr") = Str(Acme)
    /\ Get(pstatus, "device.model") = Str(X1)
    /\ Get(pstatus, "device.serial") = Str(SN123)
    /\ pres = Str(Acme \o <<"_">> \o X1 \o <<"_">> \o SN123)

\* a serial that is no serial: "unknown" in any case, or only '0's
NoSerial(s) == Lower(s) = Unknown \/ \A i \in 1..Len(s) : s[i] = "0"

\* C7, as claimed: the first present value of device.serial, ups.serial is
\* returned unchanged, or None when it is "unknown" or all '0'; None when
\* neither key is present.  (Of an empty value the claim is read either
\* way: None and "" are both accepted.)
C7_Original ==
    pfn = "serial" =>
        LET first == IF Get(pstatus, "device.serial") # PyNone
                     THEN Get(pstatus, "device.serial")
                     ELSE Get(pstatus, "ups.serial")
        IN  IF first = PyNone THEN pres = PyNone
            ELSE IF first = Str(<<>>) THEN pres \in {PyNone, Str(<<>>)}
            ELSE IF NoSerial(first.chars) THEN pres = PyNone
            ELSE pres = first

\* C7, amended: the first non-empty value of device.serial, ups.serial is
\* returned unchanged, or None when it is "unknown" or all '0'; with no
\* non-empty value the result is what ups.serial holds, None or "".
C7_FirstNonEmptySerial ==
    pfn = "serial" =>
        LET first == IF Truthy(Get(pstatus, "device.serial"))
                     THEN Get(pstatus, "device.serial")
                     ELSE Get(pstatus, "ups.serial")
        IN  IF ~Truthy(first) THEN pres = Get(pstatus, "ups.serial") /\ ~Truthy(pres)
            ELSE IF NoSerial(first.chars) THEN pres = PyNone
            ELSE pres = first

\* an empty device.serial is passed over, and "UNKNOWN" gives None
C7_Witness ==
    /\ pfn = "serial"
    /\ Get(pstatus, "device.serial") = Str(<<>>)
    /\ Get(pstatus, "ups.serial") = Str(<<"U", "N", "K", "N", "O", "W", "N">>)
    /\ pres = PyNone

\* async_setup_entry has run its migration at least once
Migrated == entryState # "not_loaded" \/ lastReturn # "none"

\* C8: after the migration the options hold no resource list and every
\* other key keeps its value; a further migration changes nothing and
\* updates nothing.
C8_MigrationIdempotent ==
    Migrated =>
        /\ DOMAIN options = DOMAIN origOptions \ {CONF_RESOURCES}
        /\ \A k \in DOMAIN options : options[k] = origOptions[k]
        /\ optionsUpdates = IF CONF_RESOURCES \in DOMAIN origOptions THEN 1 ELSE 0
        /\ MigrateOptions(options) = [options |-> options, updated |-> FALSE]

\* a second setup of an entry whose first setup migrated it
C8_Witness ==
    /\ entryState = "setup"
    /\ lastReturn = "unload:True"
    /\ origOptions = [k \in {CONF_RESOURCES, CONF_SCAN_INTERVAL} |->
                        IF k = CONF_RESOURCES THEN "battery.charge" ELSE 30]
    /\ options = [k \in {CONF_SCAN_INTERVAL} |-> 30]
    /\ optionsUpdates = 1

\* updates of the fetcher that have not yet requested list_vars
BeforeVars == Cardinality({w \in Workers : workers[w] = "ups"})

\* C9, as claimed: list_ups is requested at most once per fetcher, never
\* with a configured alias, and list_vars in every cycle.
C9_Original ==
    /\ upsRequests <= 1
    /\ cfgAlias # PyNone => upsRequests = 0
    /\ varsRequests + BeforeVars = nUpdates

\* C9, amended: list_ups is requested only by an update that finds no alias
\* set, so never with a configured alias; with no alias configured, as long
\* as no request has given a non-empty list, every cycle requests it again;
\* list_vars is requested in every cycle.
C9_AliasRequestedWhileUnset ==
    /\ upsWithAlias = 0
    /\ cfgAlias # PyNone => upsRequests = 0
    /\ (cfgAlias = PyNone /\ data.ups_list = PyNone) => upsRequests = nUpdates
    /\ varsRequests + BeforeVars = nUpdates

\* list_ups failed in the first cycle, gave the alias in the second, and
\* was not requested in the third
C9_Witness ==
    /\ cfgAlias = PyNone
    /\ nUpdates = 3
    /\ upsRequests = 2
    /\ varsRequests = 3
    /\ data.alias = Str(Ups1)

\* C10: a listener's deregistration callback is invoked at most once, and
\* async_unload_entry runs only on an entry that has a stored handle.
C10_UndoAtMostOnce ==
    /\ undoCalls <= 1
    /\ entryState = "loaded" => hassData # PyNone

====
